---- MODULE Spec2Model ----
(***************************************************************************)
(* Plugwise platforms for Home Assistant (climate, sensor, number).        *)
(*                                                                         *)
(* Python dicts are functions whose DOMAIN is the set of keys present, so  *)
(* that dict.get(key, default) and `key in dict` are modelled by what they *)
(* do.  Python lists are sequences.  A call either returns a value,        *)
(* Ok(v), or raises, Raise(exception name).  A coroutine runs from one     *)
(* await to the next in one step; between two steps it is suspended and    *)
(* the event loop runs whatever else is ready.                             *)
(***************************************************************************)
EXTENDS Integers, Sequences, FiniteSets, Bags, TLC

VARIABLES
    data,           \* coordinator.data: the latest snapshot (gateway, devices)
    hc_data,        \* PlugwiseClimateEntity.hc_data, bound in __init__
    attr_min_temp,  \* PlugwiseClimateEntity._attr_min_temp, set in __init__
    attr_max_temp,  \* PlugwiseClimateEntity._attr_max_temp, set in __init__
    SENSORS,        \* the sensor descriptor table async_setup_entry iterates
    entities,       \* sensor entities handed to async_add_entities
    setup,          \* outcome of the sensor platform's async_setup_entry
    pending,        \* the service calls suspended in an await, as a bag
    last            \* the last step of an operation: name, arguments,
                    \* outcome so far, commands sent so far

vars == <<data, hc_data, attr_min_temp, attr_max_temp, SENSORS, entities,
          setup, pending, last>>

----------------------------------------------------------------------------
(* Bounds of the model *)

\* setpoints range over 0..MaxTemp, requested temperatures over 1..MaxTemp
MaxTemp == 3
\* a dict of the sensors record holds values 1..MaxValue
MaxValue == 2
\* the descriptor table holds at most MaxDescriptions descriptors
MaxDescriptions == 2
\* at most MaxClimateInFlight service calls of the climate entity are
\* suspended in an await at once
MaxClimateInFlight == 1
\* at most MaxNumberInFlight set_value calls of the number entities are
\* suspended in an await at once
MaxNumberInFlight == 2

----------------------------------------------------------------------------
(* Python helpers *)

Ok(v) == [kind |-> "ok", val |-> v]
Raise(e) == [kind |-> "raise", exc |-> e]

\* the outcome of a coroutine that is suspended in an await
Pending == [kind |-> "pending"]

Range(s) == {s[i] : i \in 1..Len(s)}

\* dict.get(key, default)
Get(d, k, default) == IF k \in DOMAIN d THEN d[k] ELSE default

\* every dict that extends d by any choice of optional keys:
\* opt maps each optional key to the set of values it may take
RECURSIVE WithOptional(_, _)
WithOptional(d, opt) ==
    IF DOMAIN opt = {} THEN {d}
    ELSE LET k == CHOOSE x \in DOMAIN opt : TRUE
             rest == [x \in DOMAIN opt \ {k} |-> opt[x]]
             sub == WithOptional(d, rest)
         IN sub \cup {e @@ (k :> v) : e \in sub, v \in opt[k]}

\* index of the first occurrence of x in list l (x occurs in l)
FirstIndex(l, x) == CHOOSE i \in 1..Len(l) :
                        l[i] = x /\ \A j \in 1..(i - 1) : l[j] # x

\* list.remove(x) for x in the list: the list without the first x
ListRemove(l, x) ==
    LET i == FirstIndex(l, x)
    IN SubSeq(l, 1, i - 1) \o SubSeq(l, i + 1, Len(l))

----------------------------------------------------------------------------
(* Home Assistant constants *)

HEAT == "heat"
COOL == "cool"
HEAT_COOL == "heat_cool"
AUTO == "auto"
HVACMode == {HEAT, COOL, HEAT_COOL, AUTO}

IDLE == "idle"
HEATING == "heating"
COOLING == "cooling"
HVACAction == {IDLE, HEATING, COOLING}

ATTR_TEMPERATURE == "temperature"
ATTR_TARGET_TEMP_HIGH == "target_temp_high"
ATTR_TARGET_TEMP_LOW == "target_temp_low"

----------------------------------------------------------------------------
(* The snapshot held by the coordinator *)

HeaterId == "heater"
DeviceId == "thermostat"

NoOp == [op |-> "none", args |-> <<>>, result |-> Ok("none"), calls |-> <<>>]

\* PlugwiseEntity.device: the entity's device in the latest snapshot
device(d) == d.devices[DeviceId]

Snapshot(cooling_present, heater, dev) ==
    [gateway |-> [cooling_present |-> cooling_present, heater_id |-> HeaterId],
     devices |-> (HeaterId :> heater) @@ (DeviceId :> dev)]

BaseHeater == [binary_sensors |-> [heating_state |-> FALSE]]

BaseDevice ==
    [available_schedules |-> <<"None">>,
     location |-> "living_room",
     last_used |-> "Weekschema",
     preset_modes |-> <<"home", "away">>,
     thermostat |-> [lower_bound |-> 1, upper_bound |-> 3, resolution |-> 1]]

----------------------------------------------------------------------------
(* climate.py: the read properties *)

\* hvac_modes with the test of the gateway's cooling_present left out
hvac_modes_cooling_unchecked(d, hc) ==
    LET m0 == <<HEAT>>
        elga == Get(hc, "elga_cooling_enabled", FALSE)
        m1 == IF elga THEN ListRemove(Append(m0, HEAT_COOL), HEAT) ELSE m0
        cool == Get(hc, "lortherm_cooling_enabled", FALSE)
                \/ Get(hc, "adam_cooling_enabled", FALSE)
        m1c == Append(m1, COOL)
    IN IF cool /\ HEAT \notin Range(m1c)
       THEN Raise("ValueError")
       ELSE LET m2 == IF cool THEN ListRemove(m1c, HEAT) ELSE m1
                m3 == IF device(d).available_schedules # <<"None">>
                      THEN Append(m2, AUTO) ELSE m2
            IN Ok(m3)

\* PlugwiseClimateEntity.hvac_modes
hvac_modes(d, hc) ==
    LET m0 == <<HEAT>>
        cooling == d.gateway.cooling_present
        elga == cooling /\ Get(hc, "elga_cooling_enabled", FALSE)
        m1 == IF elga THEN ListRemove(Append(m0, HEAT_COOL), HEAT) ELSE m0
        cool == cooling /\ (Get(hc, "lortherm_cooling_enabled", FALSE)
                            \/ Get(hc, "adam_cooling_enabled", FALSE))
        m1c == Append(m1, COOL)
    IN IF cool /\ HEAT \notin Range(m1c)
       THEN Raise("ValueError")
       ELSE LET m2 == IF cool THEN ListRemove(m1c, HEAT) ELSE m1
                m3 == IF device(d).available_schedules # <<"None">>
                      THEN Append(m2, AUTO) ELSE m2
            IN Ok(m3)

\* hvac_mode without the membership test: a reported mode is returned as is
hvac_mode_unchecked(d, hc) ==
    IF "mode" \notin DOMAIN device(d)
    THEN Ok(HEAT)
    ELSE Ok(device(d).mode)

\* PlugwiseClimateEntity.hvac_mode
hvac_mode(d, hc) ==
    IF "mode" \notin DOMAIN device(d)
    THEN Ok(HEAT)
    ELSE LET modes == hvac_modes(d, hc)
         IN IF modes.kind = "raise" THEN modes
            ELSE IF device(d).mode \notin Range(modes.val) THEN Ok(HEAT)
            ELSE Ok(device(d).mode)

\* hvac_action with the heater flags tested before control_state
hvac_action_flags_first(d, hc) ==
    LET control_state == Get(device(d), "control_state", "not_found")
    IN IF hc.binary_sensors.heating_state THEN Ok(HEATING)
       ELSE IF Get(hc.binary_sensors, "cooling_state", FALSE) THEN Ok(COOLING)
       ELSE IF control_state = "cooling" THEN Ok(COOLING)
       ELSE IF control_state \in {"heating", "preheating"} THEN Ok(HEATING)
       ELSE Ok(IDLE)

\* PlugwiseClimateEntity.hvac_action
hvac_action(d, hc) ==
    LET control_state == Get(device(d), "control_state", "not_found")
    IN IF control_state = "cooling" THEN Ok(COOLING)
       ELSE IF control_state \in {"heating", "preheating"} THEN Ok(HEATING)
       ELSE IF control_state = "off" THEN Ok(IDLE)
       ELSE IF hc.binary_sensors.heating_state THEN Ok(HEATING)
       ELSE IF Get(hc.binary_sensors, "cooling_state", FALSE) THEN Ok(COOLING)
       ELSE Ok(IDLE)

\* a raise whose message names a setpoint channel
RaiseFor(e, channel) == [kind |-> "raise", exc |-> e, setpoint |-> channel]

\* the device API answers a command: it completes or it raises
ApiOutcome == {Ok("none"), Raise("PlugwiseError")}

\* util.plugwise_command: the outcome of the wrapped coroutine reaches the caller
plugwise_command(outcome) == outcome

\* the setpoint channels in the order async_set_temperature fills its dict
Channels == <<"setpoint", "setpoint_high", "setpoint_low">>
ChannelAttr == <<ATTR_TEMPERATURE, ATTR_TARGET_TEMP_HIGH, ATTR_TARGET_TEMP_LOW>>

\* the dict built with setpoint_high filled from the low target temperature
SetpointData_high_from_low(kwargs) ==
    LET present == {i \in 1..3 : ChannelAttr[i] \in DOMAIN kwargs}
        source(c) == IF c = "setpoint" THEN ATTR_TEMPERATURE
                     ELSE IF ATTR_TARGET_TEMP_LOW \in DOMAIN kwargs
                          THEN ATTR_TARGET_TEMP_LOW
                          ELSE ATTR_TARGET_TEMP_HIGH
    IN [c \in {Channels[i] : i \in present} |-> kwargs[source(c)]]

\* the dict async_set_temperature builds from its keyword arguments
SetpointData(kwargs) ==
    LET present == {i \in 1..3 : ChannelAttr[i] \in DOMAIN kwargs}
    IN [c \in {Channels[i] : i \in present} |->
            kwargs[ChannelAttr[CHOOSE i \in 1..3 : Channels[i] = c]]]

\* the temperature check of async_set_temperature
InRange(min_temp, max_temp, temperature) ==
    min_temp <= temperature /\ temperature <= max_temp

\* async_set_temperature with a check that looks at the setpoint channel only
async_set_temperature_first_only(d, min_temp, max_temp, kwargs) ==
    LET payload == SetpointData(kwargs)
    IN IF /\ "setpoint" \in DOMAIN payload
          /\ ~InRange(min_temp, max_temp, payload["setpoint"])
       THEN [result |-> plugwise_command(RaiseFor("ValueError", "setpoint")),
             calls |-> <<>>]
       ELSE [result |-> Pending,
             calls |-> <<[cmd |-> "set_temperature",
                          location |-> device(d).location,
                          data |-> payload]>>]

\* PlugwiseClimateEntity.async_set_temperature up to its await: the raise of
\* the check, or the command sent to the API and the coroutine suspended
async_set_temperature(d, min_temp, max_temp, kwargs) ==
    LET payload == SetpointData(kwargs)
        bad == {i \in 1..3 : /\ Channels[i] \in DOMAIN payload
                              /\ ~InRange(min_temp, max_temp,
                                          payload[Channels[i]])}
    IN IF bad # {}
       THEN LET first == CHOOSE i \in bad : \A j \in bad : i <= j
            IN [result |-> plugwise_command(
                               RaiseFor("ValueError", Channels[first])),
                calls |-> <<>>]
       ELSE [result |-> Pending,
             calls |-> <<[cmd |-> "set_temperature",
                          location |-> device(d).location,
                          data |-> payload]>>]

\* async_set_hvac_mode that sends "on" for every accepted mode
async_set_hvac_mode_always_on(d, hc, mode) ==
    LET modes == hvac_modes(d, hc)
    IN IF modes.kind = "raise"
       THEN [result |-> plugwise_command(modes), calls |-> <<>>]
       ELSE IF mode \notin Range(modes.val)
       THEN [result |-> plugwise_command(Raise("HomeAssistantError")),
             calls |-> <<>>]
       ELSE [result |-> Pending,
             calls |-> <<[cmd |-> "set_schedule_state",
                          location |-> device(d).location,
                          schedule |-> device(d).last_used,
                          state |-> "on"]>>]

\* PlugwiseClimateEntity.async_set_hvac_mode up to its await: the raise of
\* the membership test, or the command sent to the API and the coroutine
\* suspended
async_set_hvac_mode(d, hc, mode) ==
    LET modes == hvac_modes(d, hc)
    IN IF modes.kind = "raise"
       THEN [result |-> plugwise_command(modes), calls |-> <<>>]
       ELSE IF mode \notin Range(modes.val)
       THEN [result |-> plugwise_command(Raise("HomeAssistantError")),
             calls |-> <<>>]
       ELSE [result |-> Pending,
             calls |-> <<[cmd |-> "set_schedule_state",
                          location |-> device(d).location,
                          schedule |-> device(d).last_used,
                          state |-> IF mode = AUTO THEN "on" ELSE "off"]>>]

\* PlugwiseClimateEntity.async_set_preset_mode up to its await: the command
\* sent to the API, for any preset, and the coroutine suspended
async_set_preset_mode(d, preset_mode) ==
    [result |-> Pending,
     calls |-> <<[cmd |-> "set_preset",
                  location |-> device(d).location,
                  preset |-> preset_mode]>>]

\* a climate coroutine resumed by the answer of the API to its command: the
\* await was its last statement
command_returns(calls, api) ==
    [result |-> plugwise_command(api), calls |-> calls]

\* ClimateEntityFeature flags
TARGET_TEMPERATURE == 1
TARGET_TEMPERATURE_RANGE == 2
PRESET_MODE == 16

\* flag in features, for a single-bit flag
HasFlag(features, flag) == (features \div flag) % 2 = 1

\* features | flag, for a single-bit flag
OrFlag(features, flag) ==
    IF HasFlag(features, flag) THEN features ELSE features + flag

\* PlugwiseClimateEntity.supported_features
supported_features(d, hc) ==
    LET f0 == TARGET_TEMPERATURE
        f1 == IF Get(hc, "elga_cooling_enabled", FALSE)
              THEN TARGET_TEMPERATURE_RANGE ELSE f0
        f2 == IF Get(device(d), "preset_modes", <<>>) # <<>>
              THEN OrFlag(f1, PRESET_MODE) ELSE f1
    IN Ok(f2)

----------------------------------------------------------------------------
(* models.py and sensor.py: value resolution *)

\* Python's None, for the optional fields of a descriptor
None == "<None>"

\* a lookup that found nothing
Absent == [kind |-> "absent"]

\* models.py binds no name LOGGER: it imports none and assigns none
LoggerBound == FALSE

\* str.split("."), on the attribute names of the model
Split(attr) ==
    CASE attr = "temperature" -> <<"temperature">>
      [] attr = "thermostat" -> <<"thermostat">>
      [] attr = "thermostat.setpoint" -> <<"thermostat", "setpoint">>

\* utils.get_nested_attr on a list of path segments
RECURSIVE Traverse(_, _)
Traverse(obj, segments) ==
    IF segments = <<>> THEN Ok(obj)
    ELSE IF Head(segments) \notin DOMAIN obj THEN Absent
    ELSE Traverse(obj[Head(segments)], Tail(segments))

\* utils.get_nested_attr(obj, attr)
get_nested_attr(obj, attr) == Traverse(obj, Split(attr))

\* PlugwiseRequiredKeysMixin.get_pw_value
get_pw_value(self, obj) ==
    IF ~LoggerBound THEN Raise("NameError")
    ELSE IF self.pw_value # None THEN get_nested_attr(obj, self.pw_value)
    ELSE IF self.pw_value_fn # None THEN Raise("AttributeError")
    ELSE IF self.key # None THEN get_nested_attr(obj, self.key)
    ELSE Raise("RuntimeError")

\* PlugwiseSensorEntity.native_value of the entity of description self
native_value(self, d) ==
    IF "sensors" \notin DOMAIN device(d) THEN Raise("KeyError")
    ELSE get_pw_value(self, device(d).sensors)

\* sensor.async_setup_entry: the descriptions that become entities
RECURSIVE SetupEntities(_, _)
SetupEntities(d, descriptions) ==
    IF descriptions = <<>> \/ "sensors" \notin DOMAIN device(d) THEN <<>>
    ELSE LET description == Head(descriptions)
             rest == SetupEntities(d, Tail(descriptions))
         IN IF description.key \notin DOMAIN device(d).sensors
            THEN rest
            ELSE <<description>> \o rest

\* a descriptor with none of key, pw_value, pw_value_fn
NoStrategy(description) ==
    /\ description.key = None
    /\ description.pw_value = None
    /\ description.pw_value_fn = None

----------------------------------------------------------------------------
(* Snapshots the coordinator delivers *)

\* heaters that differ in their cooling-enabled flags
ModesHeaters ==
    WithOptional(BaseHeater,
                 [elga_cooling_enabled |-> BOOLEAN,
                  lortherm_cooling_enabled |-> {TRUE},
                  adam_cooling_enabled |-> {TRUE}])

\* thermostats that differ in reported mode and schedules
ModesDevices ==
    UNION {WithOptional([BaseDevice EXCEPT !.available_schedules = s],
                        [mode |-> HVACMode])
           : s \in {<<>>, <<"None">>, <<"Weekschema">>}}

ModesSnapshots ==
    {Snapshot(cp, h, dv) : cp \in BOOLEAN, h \in ModesHeaters,
                           dv \in ModesDevices}

\* heaters that differ in their heating_state and cooling_state flags
ActionHeaters ==
    {[binary_sensors |-> b] :
        b \in WithOptional([heating_state |-> FALSE], [cooling_state |-> BOOLEAN])
              \cup
              WithOptional([heating_state |-> TRUE], [cooling_state |-> BOOLEAN])}

\* thermostats that differ in control_state
ActionDevices ==
    WithOptional(BaseDevice,
                 [control_state |-> {"cooling", "heating", "preheating", "off"}])

ActionSnapshots ==
    {Snapshot(FALSE, h, dv) : h \in ActionHeaters, dv \in ActionDevices}

\* thermostats that differ in schedules and presets
FeatureDevices ==
    {[BaseDevice EXCEPT !.available_schedules = s, !.preset_modes = p]
        : s \in {<<"None">>, <<"Weekschema">>},
          p \in {<<>>, <<"home", "away">>}}

FeatureSnapshots ==
    {Snapshot(cp, h, dv) : cp \in BOOLEAN, h \in ModesHeaters,
                           dv \in FeatureDevices}

\* heaters with and without the elga and lortherm flags
ControlHeaters ==
    WithOptional(BaseHeater,
                 [elga_cooling_enabled |-> {TRUE},
                  lortherm_cooling_enabled |-> {TRUE}])

\* thermostats that differ in schedules and last used schedule
ControlDevices ==
    {[BaseDevice EXCEPT !.available_schedules = s, !.last_used = u]
        : s \in {<<"None">>, <<"Weekschema">>},
          u \in {"Weekschema", "Weekend"}}

ControlSnapshots ==
    {Snapshot(cp, h, dv) : cp \in BOOLEAN, h \in ControlHeaters,
                           dv \in ControlDevices}

\* the modes a set_hvac_mode service call may ask for
RequestedModes == HVACMode \cup {"off"}

\* the presets a set_preset_mode service call may ask for: one the device
\* lists and one it does not
RequestedPresets == {"home", "asleep"}

\* thermostats that differ in the upper bound of the setpoint
TempDevices ==
    {[BaseDevice EXCEPT !.thermostat.lower_bound = 2,
                        !.thermostat.upper_bound = hi]
        : hi \in {2, 3}}

TempSnapshots == {Snapshot(FALSE, BaseHeater, dv) : dv \in TempDevices}

\* keyword arguments of a set_temperature service call
Kwargs ==
    WithOptional(<<>>, [temperature |-> 1..MaxTemp,
                        target_temp_high |-> 1..MaxTemp,
                        target_temp_low |-> 1..MaxTemp])

----------------------------------------------------------------------------
(* The climate entity *)

\* PlugwiseClimateEntity.__init__ on the snapshot d
ClimateInit(d) ==
    /\ data = d
    /\ hc_data = d.devices[d.gateway.heater_id]
    /\ attr_min_temp = device(d).thermostat.lower_bound
    /\ attr_max_temp = device(d).thermostat.upper_bound
    /\ SENSORS = <<>>
    /\ entities = <<>>
    /\ setup = "none"
    /\ pending = EmptyBag
    /\ last = NoOp

\* the coordinator replaces the snapshot wholesale; the calls in flight stay
\* in flight
UpdateData(Snapshots) ==
    /\ \E d \in Snapshots : data' = d
    /\ last' = NoOp
    /\ UNCHANGED <<hc_data, attr_min_temp, attr_max_temp, SENSORS, entities,
                   setup, pending>>

Read(name, value) ==
    /\ last' = [op |-> name, args |-> <<>>, result |-> value, calls |-> <<>>]
    /\ UNCHANGED <<data, hc_data, attr_min_temp, attr_max_temp, SENSORS,
                   entities, setup, pending>>

ReadHvacModes == Read("hvac_modes", hvac_modes(data, hc_data))
ReadHvacMode == Read("hvac_mode", hvac_mode(data, hc_data))
\* a read of hvac_action that also rebinds hc_data to the latest heater
ReadHvacAction_rebinding ==
    /\ last' = [op |-> "hvac_action", args |-> <<>>,
                result |-> hvac_action(data, hc_data), calls |-> <<>>]
    /\ hc_data' = data.devices[data.gateway.heater_id]
    /\ UNCHANGED <<data, attr_min_temp, attr_max_temp, SENSORS, entities,
                   setup, pending>>

ReadHvacAction == Read("hvac_action", hvac_action(data, hc_data))

ReadSupportedFeatures ==
    Read("supported_features", supported_features(data, hc_data))

\* the coroutine of a service call, suspended at the await named at
Suspended(op, args, at, calls) ==
    [op |-> op, args |-> args, at |-> at, calls |-> calls]

\* the number of service calls in flight
InFlight == BagCardinality(pending)

\* a service call starts and runs to its first await, or to the raise that
\* ends it before: out is what the coroutine has done up to there, cap the
\* bound on the calls in flight
Call(op, args, out, cap) ==
    /\ out.result = Pending => InFlight < cap
    /\ pending' = IF out.result = Pending
                  THEN pending (+) SetToBag({Suspended(op, args, "api",
                                                       out.calls)})
                  ELSE pending
    /\ last' = [op |-> op, args |-> args, result |-> out.result,
                calls |-> out.calls]
    /\ UNCHANGED <<data, hc_data, attr_min_temp, attr_max_temp, SENSORS,
                   entities, setup>>

\* a set_temperature service call checked against the bounds the latest
\* snapshot reports
SetTemperature_current_bounds ==
    \E kwargs \in Kwargs :
        Call("async_set_temperature", kwargs,
             async_set_temperature(data,
                                   device(data).thermostat.lower_bound,
                                   device(data).thermostat.upper_bound,
                                   kwargs),
             MaxClimateInFlight)

\* a set_temperature service call with keyword arguments kwargs starts
SetTemperature ==
    \E kwargs \in Kwargs :
        Call("async_set_temperature", kwargs,
             async_set_temperature(data, attr_min_temp, attr_max_temp,
                                   kwargs),
             MaxClimateInFlight)

\* a set_hvac_mode service call starts
SetHvacMode ==
    \E mode \in RequestedModes :
        Call("async_set_hvac_mode", <<mode>>,
             async_set_hvac_mode(data, hc_data, mode), MaxClimateInFlight)

\* a set_preset_mode service call starts
SetPresetMode ==
    \E preset_mode \in RequestedPresets :
        Call("async_set_preset_mode", <<preset_mode>>,
             async_set_preset_mode(data, preset_mode), MaxClimateInFlight)

\* the API answers the command of a climate service call in flight, and the
\* call returns to its caller
CommandDone ==
    \E c \in BagToSet(pending), api \in ApiOutcome :
        LET out == command_returns(c.calls, api)
        IN /\ c.at = "api"
           /\ pending' = pending (-) SetToBag({c})
           /\ last' = [op |-> c.op, args |-> c.args, result |-> out.result,
                       calls |-> out.calls]
           /\ UNCHANGED <<data, hc_data, attr_min_temp, attr_max_temp,
                          SENSORS, entities, setup>>

----------------------------------------------------------------------------
(* The sensor platform *)

\* the sensors dict of a device
SensorRecords ==
    WithOptional(<<>>,
                 [temperature |-> 1..MaxValue,
                  thermostat |-> WithOptional(<<>>, [setpoint |-> 1..MaxValue])])

\* devices with and without a sensors dict
SensorDevices ==
    {BaseDevice} \cup {BaseDevice @@ ("sensors" :> r) : r \in SensorRecords}

SensorSnapshots == {Snapshot(FALSE, BaseHeater, dv) : dv \in SensorDevices}

\* descriptors: each of key, pw_value, pw_value_fn set or left None
Descriptions ==
    [key : {None, "temperature"},
     pw_value : {None, "thermostat.setpoint"},
     pw_value_fn : {None, "callback"}]

Tables == UNION {[1..n -> Descriptions] : n \in 1..MaxDescriptions}

InitSensor ==
    /\ data \in SensorSnapshots
    /\ SENSORS \in Tables
    /\ hc_data = BaseHeater
    /\ attr_min_temp = 0
    /\ attr_max_temp = 0
    /\ entities = <<>>
    /\ setup = "none"
    /\ pending = EmptyBag
    /\ last = NoOp

\* sensor.async_setup_entry
SetupEntry ==
    /\ setup = "none"
    /\ entities' = SetupEntities(data, SENSORS)
    /\ setup' = "done"
    /\ last' = [op |-> "async_setup_entry", args |-> <<>>,
                result |-> Ok("none"), calls |-> <<>>]
    /\ UNCHANGED <<data, hc_data, attr_min_temp, attr_max_temp, SENSORS,
                   pending>>

\* a read of native_value of one of the entities
ReadNativeValue ==
    \E i \in 1..Len(entities) :
        /\ last' = [op |-> "native_value", args |-> <<entities[i]>>,
                    result |-> native_value(entities[i], data),
                    calls |-> <<>>]
        /\ UNCHANGED <<data, hc_data, attr_min_temp, attr_max_temp, SENSORS,
                       entities, setup, pending>>

UpdateSensor == UpdateData(SensorSnapshots)
NextSensor == SetupEntry \/ ReadNativeValue \/ UpdateSensor
SpecSensor == InitSensor /\ [][NextSensor]_vars

----------------------------------------------------------------------------
(* The climate and sensor reads side by side *)

\* thermostats that differ in control_state and in their sensors dict
ReadsDevices ==
    ActionDevices \cup
    {dv @@ ("sensors" :> [temperature |-> v])
        : dv \in ActionDevices, v \in 1..MaxValue}

ReadsSnapshots ==
    {Snapshot(FALSE, h, dv) : h \in ActionHeaters, dv \in ReadsDevices}

\* descriptor tables of one descriptor
ReadsTables == {<<description>> : description \in Descriptions}

InitReads ==
    /\ data \in ReadsSnapshots
    /\ hc_data = data.devices[data.gateway.heater_id]
    /\ attr_min_temp = device(data).thermostat.lower_bound
    /\ attr_max_temp = device(data).thermostat.upper_bound
    /\ SENSORS \in ReadsTables
    /\ entities = <<>>
    /\ setup = "none"
    /\ pending = EmptyBag
    /\ last = NoOp

UpdateReads == UpdateData(ReadsSnapshots)
NextReads == UpdateReads \/ SetupEntry \/ ReadNativeValue \/ ReadHvacAction
SpecReads == InitReads /\ [][NextReads]_vars

----------------------------------------------------------------------------
(* number.py: the number platform *)

\* NUMBER_TYPES: the descriptions of the number platform, by their key
NUMBER_TYPES == <<[key |-> "maximum_boiler_temperature"]>>

\* description.command: api.set_number_setpoint(number, value)
SetNumberSetpoint(key, value) ==
    [cmd |-> "set_number_setpoint", key |-> key, value |-> value]

\* coordinator.async_request_refresh()
RefreshRequest == [cmd |-> "async_request_refresh"]

\* number.async_setup_entry: the descriptions that become entities
RECURSIVE NumberSetupEntities(_, _)
NumberSetupEntities(d, descriptions) ==
    IF descriptions = <<>> THEN <<>>
    ELSE LET description == Head(descriptions)
             rest == NumberSetupEntities(d, Tail(descriptions))
         IN IF /\ description.key \in DOMAIN device(d)
               /\ "setpoint" \in DOMAIN device(d)[description.key]
            THEN <<description>> \o rest
            ELSE rest

\* PlugwiseNumberEntity.native_value
number_native_value(description, d) ==
    IF description.key \notin DOMAIN device(d) THEN Raise("KeyError")
    ELSE IF "setpoint" \notin DOMAIN device(d)[description.key]
    THEN Raise("KeyError")
    ELSE Ok(device(d)[description.key].setpoint)

\* PlugwiseNumberEntity.async_set_native_value up to its first await: the
\* command is sent and the coroutine suspended
async_set_native_value(description, value) ==
    [result |-> Pending, calls |-> <<SetNumberSetpoint(description.key, value)>>]

\* async_set_native_value resumed by the answer of the API, with the refresh
\* requested in a finally clause, whatever that answer is
async_set_native_value_finally(calls, api) ==
    [result |-> IF api.kind = "raise" THEN api ELSE Pending,
     calls |-> Append(calls, RefreshRequest)]

\* async_set_native_value resumed by the answer of the API to the command: a
\* raise leaves the coroutine; after a return the refresh is requested and
\* the coroutine is suspended in its second await
async_set_native_value_resume(calls, api) ==
    IF api.kind = "raise"
    THEN [result |-> api, calls |-> calls]
    ELSE [result |-> Pending, calls |-> Append(calls, RefreshRequest)]

\* async_set_native_value resumed by the end of the refresh: it returns
async_set_native_value_return(calls) ==
    [result |-> Ok("none"), calls |-> calls]

\* devices with and without a maximum_boiler_temperature dict
NumberDevices ==
    {BaseDevice} \cup
    {BaseDevice @@ ("maximum_boiler_temperature" :> r)
        : r \in UNION {WithOptional([lower_bound |-> lo,
                                     upper_bound |-> MaxTemp,
                                     resolution |-> 1],
                                    [setpoint |-> lo..MaxTemp])
                          : lo \in 0..1}}

NumberSnapshots == {Snapshot(FALSE, BaseHeater, dv) : dv \in NumberDevices}

InitNumber ==
    /\ data \in NumberSnapshots
    /\ hc_data = BaseHeater
    /\ attr_min_temp = 0
    /\ attr_max_temp = 0
    /\ SENSORS = <<>>
    /\ entities = <<>>
    /\ setup = "none"
    /\ pending = EmptyBag
    /\ last = NoOp

\* number.async_setup_entry
NumberSetupEntry ==
    /\ setup = "none"
    /\ entities' = NumberSetupEntities(data, NUMBER_TYPES)
    /\ setup' = "done"
    /\ last' = [op |-> "async_setup_entry", args |-> <<>>,
                result |-> Ok("none"), calls |-> <<>>]
    /\ UNCHANGED <<data, hc_data, attr_min_temp, attr_max_temp, SENSORS,
                   pending>>

\* a read of native_value of one of the number entities
ReadNumberValue ==
    \E i \in 1..Len(entities) :
        /\ last' = [op |-> "number_native_value", args |-> <<entities[i]>>,
                    result |-> number_native_value(entities[i], data),
                    calls |-> <<>>]
        /\ UNCHANGED <<data, hc_data, attr_min_temp, attr_max_temp, SENSORS,
                       entities, setup, pending>>

\* a set_value service call on one of the number entities starts
SetNativeValue ==
    \E i \in 1..Len(entities), value \in 0..MaxTemp :
        Call("async_set_native_value",
             [key |-> entities[i].key, value |-> value],
             async_set_native_value(entities[i], value), MaxNumberInFlight)

\* the API answers the command of a set_value call in flight: the call ends
\* in the raise of the API, or requests the refresh and is suspended again
NumberCommandDone ==
    \E c \in BagToSet(pending), api \in ApiOutcome :
        LET out == async_set_native_value_resume(c.calls, api)
            rest == pending (-) SetToBag({c})
        IN /\ c.at = "api"
           /\ pending' = IF out.result = Pending
                         THEN rest (+) SetToBag({Suspended(c.op, c.args,
                                                           "refresh",
                                                           out.calls)})
                         ELSE rest
           /\ last' = [op |-> c.op, args |-> c.args, result |-> out.result,
                       calls |-> out.calls]
           /\ UNCHANGED <<data, hc_data, attr_min_temp, attr_max_temp,
                          SENSORS, entities, setup>>

\* the refresh a set_value call waits for ends: the coordinator has replaced
\* the snapshot, and the call returns to its caller
NumberRefreshDone ==
    \E c \in BagToSet(pending), d \in NumberSnapshots :
        LET out == async_set_native_value_return(c.calls)
        IN /\ c.at = "refresh"
           /\ data' = d
           /\ pending' = pending (-) SetToBag({c})
           /\ last' = [op |-> c.op, args |-> c.args, result |-> out.result,
                       calls |-> out.calls]
           /\ UNCHANGED <<hc_data, attr_min_temp, attr_max_temp, SENSORS,
                          entities, setup>>

UpdateNumber == UpdateData(NumberSnapshots)

NextNumber ==
    \/ NumberSetupEntry \/ ReadNumberValue \/ SetNativeValue
    \/ NumberCommandDone \/ NumberRefreshDone \/ UpdateNumber
SpecNumber == InitNumber /\ [][NextNumber]_vars

----------------------------------------------------------------------------
(* The climate platform *)

InitModes == \E d \in ModesSnapshots : ClimateInit(d)
UpdateModes == UpdateData(ModesSnapshots)
NextModes == UpdateModes \/ ReadHvacModes \/ ReadHvacMode
SpecModes == InitModes /\ [][NextModes]_vars

InitAction == \E d \in ActionSnapshots : ClimateInit(d)
UpdateAction == UpdateData(ActionSnapshots)
NextAction == UpdateAction \/ ReadHvacAction
SpecAction == InitAction /\ [][NextAction]_vars

InitControl == \E d \in ControlSnapshots : ClimateInit(d)
UpdateControl == UpdateData(ControlSnapshots)
NextControl ==
    \/ UpdateControl \/ SetHvacMode \/ SetPresetMode \/ CommandDone
    \/ ReadHvacModes
SpecControl == InitControl /\ [][NextControl]_vars

InitFeatures == \E d \in FeatureSnapshots : ClimateInit(d)
UpdateFeatures == UpdateData(FeatureSnapshots)
NextFeatures == UpdateFeatures \/ ReadSupportedFeatures \/ ReadHvacModes
SpecFeatures == InitFeatures /\ [][NextFeatures]_vars

InitTemp == \E d \in TempSnapshots : ClimateInit(d)
UpdateTemp == UpdateData(TempSnapshots)
NextTemp == UpdateTemp \/ SetTemperature \/ CommandDone \/ ReadHvacAction
SpecTemp == InitTemp /\ [][NextTemp]_vars

----------------------------------------------------------------------------
(* Properties of the climate reads *)

\* the heater device of the latest snapshot
FreshHeater == data.devices[data.gateway.heater_id]

\* C1: every read of hvac_modes and of hvac_action is computed from the
\* latest snapshot only, the heater's flags included, whatever snapshots
\* were current before.
C1_ReadsUseLatestSnapshot ==
    /\ last.op = "hvac_modes" => last.result = hvac_modes(data, FreshHeater)
    /\ last.op = "hvac_action" => last.result = hvac_action(data, FreshHeater)

\* the action the heater flags held by the entity give
ActionByFlags(flags) ==
    IF flags.heating_state THEN HEATING
    ELSE IF "cooling_state" \in DOMAIN flags /\ flags.cooling_state THEN COOLING
    ELSE IDLE

\* the action a control_state gives
ActionByControlState(cs) ==
    CASE cs = "cooling" -> COOLING
      [] cs = "heating" -> HEATING
      [] cs = "preheating" -> HEATING
      [] cs = "off" -> IDLE

\* C4: hvac_action is decided by control_state alone when the thermostat
\* reports one (cooling, heating, preheating, off), whatever the heater's
\* flags; without a control_state it is decided by the heater flags the
\* entity reads, heating_state before cooling_state, else IDLE.
C4_ActionPriority ==
    last.op = "hvac_action" =>
        /\ last.result.kind = "ok"
        /\ last.result.val =
              IF "control_state" \in DOMAIN device(data)
              THEN ActionByControlState(device(data).control_state)
              ELSE ActionByFlags(hc_data.binary_sensors)

\* control_state "cooling" has decided against a true heating_state flag
C4_Witness ==
    /\ last.op = "hvac_action"
    /\ "control_state" \in DOMAIN device(data)
    /\ device(data).control_state = "cooling"
    /\ hc_data.binary_sensors.heating_state
    /\ last.result = Ok(COOLING)

\* C5: with cooling_present false, hvac_modes is exactly {HEAT} or
\* {HEAT, AUTO}, whatever the elga, lortherm and adam flags are.
C5_NoCoolingModes ==
    (last.op = "hvac_modes" /\ ~data.gateway.cooling_present) =>
        /\ last.result.kind = "ok"
        /\ Range(last.result.val) \in {{HEAT}, {HEAT, AUTO}}

\* hvac_modes was read without cooling present while the heater held by the
\* entity has the elga and lortherm flags set, and a schedule exists
C5_Witness ==
    /\ last.op = "hvac_modes"
    /\ ~data.gateway.cooling_present
    /\ Get(hc_data, "elga_cooling_enabled", FALSE)
    /\ Get(hc_data, "lortherm_cooling_enabled", FALSE)
    /\ last.result = Ok(<<HEAT, AUTO>>)

\* C6: with cooling present and elga_cooling_enabled set, hvac_modes returns
\* a list that holds HEAT_COOL and not HEAT, whatever the lortherm and adam
\* flags are (stated for an entity whose heater record is the latest one).
C6_ElgaYieldsHeatCool ==
    (/\ last.op = "hvac_modes"
     /\ hc_data = FreshHeater
     /\ data.gateway.cooling_present
     /\ Get(hc_data, "elga_cooling_enabled", FALSE)) =>
        /\ last.result.kind = "ok"
        /\ HEAT_COOL \in Range(last.result.val)
        /\ HEAT \notin Range(last.result.val)

\* the device has a schedule other than the sentinel "None"
HasSchedule(dev) ==
    \E i \in 1..Len(dev.available_schedules) :
        dev.available_schedules[i] # "None"

\* C7: a list returned by hvac_modes holds AUTO exactly when the device has
\* a schedule other than the sentinel; an empty schedule list gives no AUTO.
C7_AutoIffSchedule ==
    (last.op = "hvac_modes" /\ last.result.kind = "ok") =>
        (AUTO \in Range(last.result.val) <=> HasSchedule(device(data)))

\* C8: hvac_mode returns HEAT when the reported mode is missing or is not in
\* hvac_modes, and the reported mode otherwise.
C8_ModeFallback ==
    last.op = "hvac_mode" =>
        /\ last.result.kind = "ok"
        /\ LET modes == hvac_modes(data, hc_data)
               member == /\ "mode" \in DOMAIN device(data)
                         /\ modes.kind = "ok"
                         /\ device(data).mode \in Range(modes.val)
           IN last.result.val = IF member THEN device(data).mode ELSE HEAT

----------------------------------------------------------------------------
(* Properties of async_set_temperature *)

\* the requested channels, as indexes into ChannelAttr
Requested(kwargs) == {i \in 1..3 : ChannelAttr[i] \in DOMAIN kwargs}

\* the requested channels whose temperature is outside [min_temp, max_temp]
Offending(kwargs) ==
    {i \in Requested(kwargs) : \/ kwargs[ChannelAttr[i]] < attr_min_temp
                               \/ kwargs[ChannelAttr[i]] > attr_max_temp}

\* C9: a request with any setpoint outside [min_temp, max_temp] fails with a
\* ValueError that names an offending channel, and no command is sent.
C9_OutOfRangeRejected ==
    (last.op = "async_set_temperature" /\ Offending(last.args) # {}) =>
        /\ last.result.kind = "raise"
        /\ last.result.exc = "ValueError"
        /\ last.result.setpoint \in {Channels[i] : i \in Offending(last.args)}
        /\ last.calls = <<>>

\* a request whose setpoint is in range and whose setpoint_high is not was
\* rejected for setpoint_high, without a command
C9_Witness ==
    /\ last.op = "async_set_temperature"
    /\ DOMAIN last.args = {ATTR_TEMPERATURE, ATTR_TARGET_TEMP_HIGH}
    /\ Offending(last.args) = {2}
    /\ last.result = RaiseFor("ValueError", "setpoint_high")
    /\ last.calls = <<>>

\* C10: a request whose setpoints are all within [min_temp, max_temp] sends
\* exactly one set_temperature command, for the device's location, whose
\* payload holds exactly the requested channels with the requested values.
C10_InRangeForwarded ==
    (last.op = "async_set_temperature" /\ Offending(last.args) = {}) =>
        /\ Len(last.calls) = 1
        /\ last.calls[1].cmd = "set_temperature"
        /\ last.calls[1].location = device(data).location
        /\ DOMAIN last.calls[1].data =
              {Channels[i] : i \in Requested(last.args)}
        /\ \A i \in Requested(last.args) :
              last.calls[1].data[Channels[i]] = last.args[ChannelAttr[i]]

\* setpoint and setpoint_high were requested in range and forwarded together
C10_Witness ==
    /\ last.op = "async_set_temperature"
    /\ DOMAIN last.args = {ATTR_TEMPERATURE, ATTR_TARGET_TEMP_HIGH}
    /\ last.args[ATTR_TEMPERATURE] # last.args[ATTR_TARGET_TEMP_HIGH]
    /\ Len(last.calls) = 1
    /\ last.calls[1].data =
          [setpoint |-> last.args[ATTR_TEMPERATURE],
           setpoint_high |-> last.args[ATTR_TARGET_TEMP_HIGH]]

----------------------------------------------------------------------------
(* Properties of value resolution *)

\* C2: a read through a descriptor with a direct key returns record[key]
\* when the key is present and Absent otherwise, whatever nested path or
\* callback the descriptor also has.
C2_DirectKeyFirst ==
    (/\ last.op = "native_value"
     /\ last.args[1].key # None
     /\ "sensors" \in DOMAIN device(data)) =>
        LET key == last.args[1].key
            record == device(data).sensors
        IN IF key \in DOMAIN record
           THEN last.result.kind = "ok" /\ last.result.val = record[key]
           ELSE last.result = Absent

\* C3: once setup has run on a table that holds a descriptor with no
\* strategy, setup has reported a configuration error; and no read of a
\* sensor value ends in the "one is required" RuntimeError.
C3_FailFastAtSetup ==
    /\ (setup # "none" /\ \E i \in 1..Len(SENSORS) : NoStrategy(SENSORS[i]))
           => setup = "ConfigurationError"
    /\ last.op = "native_value" => last.result # Raise("RuntimeError")

----------------------------------------------------------------------------
(* Properties of async_set_hvac_mode and supported_features *)

\* the last step was a service call running from its start to its await or
\* to its raise: the snapshot it has read is the current one
JustStarted == last.result = Pending \/ last.calls = <<>>

\* C11: async_set_hvac_mode with a mode that is not one of the currently
\* available modes fails with the unsupported-mode HomeAssistantError and
\* sends no command; a command is sent only for a mode that is a member.
C11_UnsupportedModeRejected ==
    (last.op = "async_set_hvac_mode" /\ JustStarted) =>
        LET modes == hvac_modes(data, hc_data)
            member == /\ modes.kind = "ok"
                      /\ last.args[1] \in Range(modes.val)
        IN /\ ~member => /\ last.result = Raise("HomeAssistantError")
                         /\ last.calls = <<>>
           /\ last.calls # <<>> => member

----------------------------------------------------------------------------
(* Purity of the reads *)

\* C12: a read of native_value (get_pw_value) or of hvac_action changes
\* neither the snapshot nor any state of the entity, and a read repeated on
\* the unchanged snapshot gives the result the read before it gave.
C12_ReadsArePure ==
    [][last'.op \in {"native_value", "hvac_action"} =>
          /\ UNCHANGED <<data, hc_data, attr_min_temp, attr_max_temp, SENSORS,
                         entities, setup, pending>>
          /\ (last.op = last'.op /\ last.args = last'.args)
                 => last'.result = last.result]_vars

\* hvac_action was read from the heater flags on a snapshot that replaced
\* the one of construction, where a repeated read is the next step
C12_Witness ==
    /\ last.op = "hvac_action"
    /\ "control_state" \notin DOMAIN device(data)
    /\ hc_data # FreshHeater
    /\ setup = "done"
    /\ Len(entities) = 1
    /\ last.result = Ok(HEATING)

----------------------------------------------------------------------------
(* hvac_mode against hvac_modes *)

\* C13, as claimed: a mode returned by hvac_mode is a member of the list
\* hvac_modes returns for the same snapshot.
C13_ModeIsAvailable ==
    (/\ last.op = "hvac_mode"
     /\ last.result.kind = "ok"
     /\ hvac_modes(data, hc_data).kind = "ok") =>
        last.result.val \in Range(hvac_modes(data, hc_data).val)

\* C13, amended: a mode returned by hvac_mode is a member of the list
\* hvac_modes returns for the same snapshot, unless it is HEAT; the
\* fallback HEAT is returned whether or not hvac_modes lists it.
C13_ModeIsAvailableOrHeat ==
    (/\ last.op = "hvac_mode"
     /\ last.result.kind = "ok"
     /\ last.result.val # HEAT) =>
        /\ hvac_modes(data, hc_data).kind = "ok"
        /\ last.result.val \in Range(hvac_modes(data, hc_data).val)

\* hvac_mode returned the reported mode "cool" after the snapshot of
\* construction was replaced
C13_Witness ==
    /\ last.op = "hvac_mode"
    /\ hc_data # FreshHeater
    /\ "mode" \in DOMAIN device(data)
    /\ device(data).mode = COOL
    /\ last.result = Ok(COOL)

----------------------------------------------------------------------------
(* Accepted async_set_hvac_mode calls *)

\* the requested mode is one of the modes hvac_modes returns
Accepted(mode) ==
    /\ hvac_modes(data, hc_data).kind = "ok"
    /\ mode \in Range(hvac_modes(data, hc_data).val)

\* the calls of a set_hvac_mode call are one set_schedule_state command
\* whose state is "on" exactly when the mode is AUTO
OneScheduleStateCommand(calls, mode) ==
    /\ Len(calls) = 1
    /\ calls[1].cmd = "set_schedule_state"
    /\ calls[1].state \in {"on", "off"}
    /\ calls[1].state = "on" <=> mode = AUTO

\* C14: an accepted async_set_hvac_mode sends exactly one set_schedule_state
\* command, for the device's location and its last_used schedule, with
\* state "on" exactly when the mode is AUTO and "off" for any other mode;
\* that command stays its only one while the call is in flight and when it
\* has returned or raised.
C14_ScheduleStateCommand ==
    /\ (last.op = "async_set_hvac_mode" /\ JustStarted
            /\ Accepted(last.args[1])) =>
          /\ last.result = Pending
          /\ OneScheduleStateCommand(last.calls, last.args[1])
          /\ last.calls[1].location = device(data).location
          /\ last.calls[1].schedule = device(data).last_used
    /\ (last.op = "async_set_hvac_mode" /\ ~JustStarted) =>
          /\ last.result \in ApiOutcome
          /\ OneScheduleStateCommand(last.calls, last.args[1])
    /\ \A c \in BagToSet(pending) :
          c.op = "async_set_hvac_mode" =>
              OneScheduleStateCommand(c.calls, c.args[1])

\* HEAT_COOL was accepted and "off" was sent for the last used schedule
C14_Witness ==
    /\ last.op = "async_set_hvac_mode"
    /\ last.args = <<HEAT_COOL>>
    /\ last.result = Pending
    /\ device(data).last_used = "Weekend"
    /\ AUTO \in Range(hvac_modes(data, hc_data).val)
    /\ last.calls = <<[cmd |-> "set_schedule_state",
                       location |-> "living_room",
                       schedule |-> "Weekend",
                       state |-> "off"]>>

----------------------------------------------------------------------------
(* The bounds async_set_temperature checks against *)

\* C15: no step, a snapshot replacement included, changes the bounds set at
\* construction, and a set_temperature request is rejected exactly when a
\* requested setpoint is outside those bounds, whatever bounds the latest
\* snapshot reports.
C15_ConstructionBounds ==
    [][/\ attr_min_temp' = attr_min_temp
       /\ attr_max_temp' = attr_max_temp
       /\ last'.op = "async_set_temperature" =>
             (last'.calls = <<>> <=>
                 \E i \in Requested(last'.args) :
                     \/ last'.args[ChannelAttr[i]] < attr_min_temp
                     \/ last'.args[ChannelAttr[i]] > attr_max_temp)]_vars

\* a setpoint inside the bounds of the latest snapshot and above the upper
\* bound of construction was rejected
C15_Witness ==
    /\ last.op = "async_set_temperature"
    /\ DOMAIN last.args = {ATTR_TEMPERATURE}
    /\ device(data).thermostat.upper_bound # attr_max_temp
    /\ last.args[ATTR_TEMPERATURE] >= device(data).thermostat.lower_bound
    /\ last.args[ATTR_TEMPERATURE] <= device(data).thermostat.upper_bound
    /\ last.args[ATTR_TEMPERATURE] > attr_max_temp
    /\ last.result = RaiseFor("ValueError", "setpoint")
    /\ last.calls = <<>>

----------------------------------------------------------------------------
(* The number entity's command and refresh *)

\* positions of the calls of a call list that satisfy a test on the command
CallsNamed(calls, name) == {i \in 1..Len(calls) : calls[i].cmd = name}

\* the command a set_value call with arguments args has to send
NumberCommand(args) == SetNumberSetpoint(NUMBER_TYPES[1].key, args.value)

\* C16: async_set_native_value sends set_number_setpoint(description key,
\* value) first and exactly once per call; the refresh is requested at most
\* once and only after the command has completed; when the command raises,
\* the raise reaches the caller with no retry and no refresh request.
C16_CommandThenRefresh ==
    /\ \A c \in BagToSet(pending) :
          /\ c.args.key = NUMBER_TYPES[1].key
          /\ c.at = "api" => c.calls = <<NumberCommand(c.args)>>
          /\ c.at = "refresh" =>
                c.calls = <<NumberCommand(c.args), RefreshRequest>>
    /\ last.op = "async_set_native_value" =>
          /\ last.args.key = NUMBER_TYPES[1].key
          /\ Len(last.calls) >= 1
          /\ last.calls[1] = NumberCommand(last.args)
          /\ Cardinality(CallsNamed(last.calls, "set_number_setpoint")) = 1
          /\ Cardinality(CallsNamed(last.calls, "async_request_refresh")) <= 1
          /\ last.result.kind = "raise" =>
                /\ last.result = Raise("PlugwiseError")
                /\ last.calls = <<NumberCommand(last.args)>>
          /\ last.result.kind = "ok" =>
                last.calls = <<NumberCommand(last.args), RefreshRequest>>

\* the command of a call raised, while another call waits for its refresh:
\* the call ended in that raise with the command as its only call
C16_Witness ==
    /\ last.op = "async_set_native_value"
    /\ last.result = Raise("PlugwiseError")
    /\ last.calls = <<NumberCommand(last.args)>>
    /\ \E c \in BagToSet(pending) : c.at = "refresh"

----------------------------------------------------------------------------
(* Declared features against declared modes *)

\* C17: supported_features holds exactly one of TARGET_TEMPERATURE and
\* TARGET_TEMPERATURE_RANGE, and it holds TARGET_TEMPERATURE_RANGE exactly
\* when hvac_modes, on the same snapshot, contains HEAT_COOL.
C17_FeaturesAgreeWithModes ==
    last.op = "supported_features" =>
        LET features == last.result.val
            modes == hvac_modes(data, hc_data)
        IN /\ HasFlag(features, TARGET_TEMPERATURE)
                 # HasFlag(features, TARGET_TEMPERATURE_RANGE)
           /\ HasFlag(features, TARGET_TEMPERATURE_RANGE)
                 <=> /\ modes.kind = "ok"
                     /\ HEAT_COOL \in Range(modes.val)

====
